---- MODULE Spec2Model ----
(***************************************************************************)
(* The sandboxed code-preview renderer (components/CodePreview) of the     *)
(* chat client: composition of the preview document from a code block,     *)
(* its presentation to the iframe, and what the iframe then shows.         *)
(*                                                                         *)
(* A source text is a finite sequence of lexical atoms.  Every atom stands *)
(* for its literal characters and the text is their concatenation, so that *)
(* <<"my", "export", " ">> is the text `myexport `.  The literals of the   *)
(* regular expressions of updateIframe (import, from, export, default,     *)
(* function, the quotes, the semicolon) are atoms of their own and no      *)
(* concatenation of other atoms spells one of them, hence matching the     *)
(* expressions atom by atom is matching them character by character.       *)
(***************************************************************************)
EXTENDS Integers, Sequences, FiniteSets, TLC

(* The state of one mounted CodePreview and of the page it is mounted in. *)
VARIABLES
    code,         \* prop: the text of the code block
    language,     \* prop: its language tag
    mounted,      \* the component has been committed and its effect has run
    activeTab,    \* "preview" or "code"
    isFullscreen,
    copied,
    timers,       \* pending setTimeout(() => setCopied(false), 2000)
    clipboard,    \* the text last written to the system clipboard
    iframeRef,    \* iframeRef.current is an element
    doc,          \* the document of that element
    loaded,       \* the document has finished executing
    result,       \* what it did and shows
    hostStorage,  \* localStorage of the embedding page
    hostVar,      \* a JavaScript variable of the embedding page
    hostBlocked,  \* the thread of the embedding page is held by a script that
                  \* does not return
    written,      \* history: the text of the last invocation of updateIframe
    lastKey,      \* history: the props of that invocation
    again,        \* history: the text of the invocation before it, when its props were the same
    overwrote,    \* history: that invocation replaced a document made from another text
    reloadFrom    \* history: what the frame showed when the reload button was
                  \* activated, "none" once anything else has happened since

(* The state of the Chat component the code blocks are rendered by. *)
VARIABLES
    element,      \* a code element of the markdown of an assistant message
    rendered      \* what the code component of Chat returned for it

previewVars ==
    <<code, language, mounted, activeTab, isFullscreen, copied, timers, clipboard,
      iframeRef, doc, loaded, result, hostStorage, hostVar, hostBlocked, written,
      lastKey, again, overwrote, reloadFrom>>

(* The speech playback of Chat and the generate-speech route behind it. *)
VARIABLES
    speakingMessageId,   \* state: id of a message or "null"
    isGeneratingSpeech,  \* state: id of a message or "null"
    audioRef,            \* audioRef.current: an Audio element, 0 for null
    playing,             \* the Audio elements that are playing
    utterances,          \* the queue of window.speechSynthesis, its head is spoken
    requests,            \* calls of speak() waiting at `await fetch(...)`
    nextSpeak,           \* the number of the next request
    platform,            \* GEMINI_API_KEY is set, window.speechSynthesis exists,
                         \* and which of the two route sources is deployed
    lastSpeak            \* history: the call of speak() that has just run to its
                         \* end, NoSpeak once anything else has happened since

(* The transcript of Chat and its submission. *)
VARIABLES
    messages,        \* state: the transcript
    input,           \* state: the text of the input field
    selectedImage,   \* state: an image is attached
    isLoading,       \* state
    renderedLoading, \* the isLoading of the render handleSubmit was made by
    pending,         \* calls of handleSubmit() waiting at `await fetch(...)`
    submits          \* history: the number of calls of handleSubmit()

(* The microphone of Chat. *)
VARIABLES
    isListening,        \* state
    isMicInitializing,  \* state
    recognition,        \* what the SpeechRecognition object of recognitionRef does
    listenTimers,       \* pending timeouts of onstart (200 ms)
    initTimers,         \* pending timeouts of toggleListening (3000 ms)
    starts              \* history: the number of start attempts

routeVars == <<element, rendered>>

micVars ==
    <<isListening, isMicInitializing, recognition, listenTimers, initTimers, starts>>

submitVars ==
    <<messages, input, selectedImage, isLoading, renderedLoading, pending, submits>>

speechVars ==
    <<speakingMessageId, isGeneratingSpeech, audioRef, playing, utterances, requests,
      nextSpeak, platform, lastSpeak>>

chatVars == <<routeVars, speechVars, submitVars, micVars>>

vars == <<previewVars, chatVars>>

hostVars == <<code, language, mounted, activeTab, isFullscreen, copied, timers,
              clipboard, hostStorage, hostVar>>

----------------------------------------------------------------------------
(* Character classes of the regular expressions.                           *)

\* \s
Space == {" ", "\n"}

\* ['"]
Quote == {"'", "\""}

\* \w : atoms made of letters, digits and underscores only
Word == {"import", "export", "default", "function", "from", "const",
         "App", "main", "Widget", "React", "react", "x", "1",
         "useState", "as", "R",
         "html", "jsx", "tsx", "javascript", "typescript", "python", "erb",
         "let", "my", "s", "y", "Panel"}

Lit(s, i, a) == i <= Len(s) /\ s[i] = a

\* index after the longest run of \s starting at i (i itself when there is none)
RECURSIVE SpacesEnd(_, _)
SpacesEnd(s, i) ==
    IF i <= Len(s) /\ s[i] \in Space THEN SpacesEnd(s, i + 1) ELSE i

\* \s+ at i: the index after the run, 0 when s[i] is not white space
SpacesPlus(s, i) ==
    IF i <= Len(s) /\ s[i] \in Space THEN SpacesEnd(s, i) ELSE 0

\* index after the longest run of \w starting at i
RECURSIVE WordEnd(_, _)
WordEnd(s, i) ==
    IF i <= Len(s) /\ s[i] \in Word THEN WordEnd(s, i + 1) ELSE i

----------------------------------------------------------------------------
(* /import\s+[\s\S]*?from\s+['"].*?['"];?/g  ->  ""                        *)

\* .*?['"] from r: index of the first quote on the line, 0 when a line break
\* or the end of the text comes first (. matches no line break)
RECURSIVE ClosingQuote(_, _)
ClosingQuote(s, r) ==
    IF r > Len(s) THEN 0
    ELSE IF s[r] \in Quote THEN r
    ELSE IF s[r] = "\n" THEN 0
    ELSE ClosingQuote(s, r + 1)

\* from\s+['"].*?['"];? at p: index after the match, 0 when there is none
FromTail(s, p) ==
    IF ~Lit(s, p, "from") THEN 0
    ELSE LET q == SpacesPlus(s, p + 1) IN
         IF q = 0 \/ q > Len(s) THEN 0
         ELSE IF s[q] \notin Quote THEN 0
         ELSE LET r == ClosingQuote(s, q + 1) IN
              IF r = 0 THEN 0
              ELSE IF Lit(s, r + 1, ";") THEN r + 2 ELSE r + 1

\* [\s\S]*? followed by the tail: the first position from p on where the tail
\* matches decides the end of the match
RECURSIVE LazyFrom(_, _)
LazyFrom(s, p) ==
    IF p > Len(s) THEN 0
    ELSE IF FromTail(s, p) # 0 THEN FromTail(s, p)
    ELSE LazyFrom(s, p + 1)

\* the whole expression at i: index after the match, 0 when there is none
ImportMatch(s, i) ==
    IF ~Lit(s, i, "import") THEN 0
    ELSE LET j == SpacesPlus(s, i + 1) IN
         IF j = 0 THEN 0 ELSE LazyFrom(s, j)

RECURSIVE StripImportsFrom(_, _)
StripImportsFrom(s, i) ==
    IF i > Len(s) THEN <<>>
    ELSE LET e == ImportMatch(s, i) IN
         IF e # 0 THEN StripImportsFrom(s, e)
         ELSE <<s[i]>> \o StripImportsFrom(s, i + 1)

StripImports(s) == StripImportsFrom(s, 1)

----------------------------------------------------------------------------
(* /export\s+default\s+function\s+(\w+)/  ->  "function $1"  (first match) *)

\* export\s+default\s+ at i: index after the match, 0 when there is none
ExportDefaultMatch(s, i) ==
    IF ~Lit(s, i, "export") THEN 0
    ELSE LET a == SpacesPlus(s, i + 1) IN
         IF a = 0 \/ ~Lit(s, a, "default") THEN 0
         ELSE SpacesPlus(s, a + 1)

\* start of the captured name (\w+) when the expression matches at i, else 0
DefaultFunctionName(s, i) ==
    LET b == ExportDefaultMatch(s, i) IN
    IF b = 0 \/ ~Lit(s, b, "function") THEN 0
    ELSE LET c == SpacesPlus(s, b + 1) IN
         IF c = 0 \/ c > Len(s) THEN 0
         ELSE IF s[c] \in Word THEN c ELSE 0

RECURSIVE FirstDefaultFunction(_, _)
FirstDefaultFunction(s, i) ==
    IF i > Len(s) THEN 0
    ELSE IF DefaultFunctionName(s, i) # 0 THEN i
    ELSE FirstDefaultFunction(s, i + 1)

\* a clean-up without the expression for default-exported functions
ReplaceDefaultFunctionSkipped(s) == s

ReplaceDefaultFunction(s) ==
    LET i == FirstDefaultFunction(s, 1) IN
    IF i = 0 THEN s
    ELSE LET c == DefaultFunctionName(s, i)
             e == WordEnd(s, c)
         IN  SubSeq(s, 1, i - 1) \o <<"function", " ">> \o SubSeq(s, c, e - 1)
               \o SubSeq(s, e, Len(s))

----------------------------------------------------------------------------
(* /export\s+default\s+/  ->  "const App = "  (first match)                *)

RECURSIVE FirstExportDefault(_, _)
FirstExportDefault(s, i) ==
    IF i > Len(s) THEN 0
    ELSE IF ExportDefaultMatch(s, i) # 0 THEN i
    ELSE FirstExportDefault(s, i + 1)

ReplaceExportDefault(s) ==
    LET i == FirstExportDefault(s, 1) IN
    IF i = 0 THEN s
    ELSE SubSeq(s, 1, i - 1) \o <<"const", " ", "App", " ", "=", " ">>
           \o SubSeq(s, ExportDefaultMatch(s, i), Len(s))

----------------------------------------------------------------------------
(* /export\s+/g  ->  ""                                                    *)

ExportMatch(s, i) ==
    IF ~Lit(s, i, "export") THEN 0 ELSE SpacesPlus(s, i + 1)

RECURSIVE StripExportsFrom(_, _)
StripExportsFrom(s, i) ==
    IF i > Len(s) THEN <<>>
    ELSE LET e == ExportMatch(s, i) IN
         IF e # 0 THEN StripExportsFrom(s, e)
         ELSE <<s[i]>> \o StripExportsFrom(s, i + 1)

StripExports(s) == StripExportsFrom(s, 1)

\* const cleanedCode = code.replace(...).replace(...).replace(...).replace(...)
cleanedCode(src) ==
    StripExports(ReplaceExportDefault(ReplaceDefaultFunction(StripImports(src))))

----------------------------------------------------------------------------
(* The runner template of updateIframe, cut into the pieces the sandbox    *)
(* treats differently.  Each piece is one atom.                            *)

DocHead ==
    "<!DOCTYPE html><html><head><meta/><script src=babel/><script src=react/><script src=react-dom/><script src=lucide/><script src=tailwind/><style/></head><body>"
RootDiv == "<div id=root></div>"
BabelOpen == "<script type=text/babel data-presets=react,typescript>"
Globals == "const { useState, useEffect, useMemo, useCallback, useRef } = React; window.LucideReact = window.lucide;"
TryOpen == "try {"
FinalRender ==
    "const container = document.getElementById(root); const root = ReactDOM.createRoot(container); if (typeof App !== undefined) { root.render(<App />) } else if (typeof main !== undefined) { main() } else { container.innerHTML = No App component found }"
LucideInit == "setTimeout(createIcons, 100);"
CatchBlock == "} catch (err) { document.getElementById(root).innerHTML = Runtime Error + (err.stack || err.toString()) }"
ScriptClose == "</script>"
DocTail == "</body></html>"

TemplateHead == <<DocHead, RootDiv, BabelOpen, Globals, TryOpen>>
TemplateTail == <<FinalRender, LucideInit, CatchBlock, ScriptClose, DocTail>>

\* the languages the chat routes to the component
Languages == {"html", "jsx", "tsx", "javascript", "typescript"}
ScriptLanguages == {"jsx", "tsx", "javascript", "typescript"}

\* content, were the html branch to share the clean-up of the script branch
contentCleaningHtml(src, lang) ==
    IF lang = "html" THEN cleanedCode(src)
    ELSE IF lang \in {"jsx", "tsx", "javascript", "typescript"}
         THEN TemplateHead \o cleanedCode(src) \o TemplateTail
    ELSE <<>>

\* content, were the text kept across invocations (declared outside the
\* callback) and appended to
contentAccumulating(src, lang) ==
    (IF written = <<"none">> THEN <<>> ELSE written) \o
    (IF lang = "html" THEN src
     ELSE IF lang \in {"jsx", "tsx", "javascript", "typescript"}
          THEN TemplateHead \o cleanedCode(src) \o TemplateTail
     ELSE <<>>)

\* let content = ""; if (language === "html") ... else if (...) ... : the
\* document text updateIframe composes
content(src, lang) ==
    IF lang = "html" THEN src
    ELSE IF lang \in {"jsx", "tsx", "javascript", "typescript"}
         THEN TemplateHead \o cleanedCode(src) \o TemplateTail
    ELSE <<>>

----------------------------------------------------------------------------
(* The iframe's document: doc.open(); doc.write(content); doc.close().     *)
(* nodes is the text the parser has been given, open tells whether the     *)
(* input stream is still open for writing.                                 *)

EmptyDoc == [nodes |-> <<>>, open |-> FALSE]

\* doc.open(), were it to reopen the input stream without emptying the document
DocOpenKeeping(d) == [d EXCEPT !.open = TRUE]

\* doc.open(): removes everything the document holds and opens its input stream
DocOpen(d) == [nodes |-> <<>>, open |-> TRUE]

\* doc.write(text): appends to the open input stream; on a closed document it
\* opens the document first
DocWrite(d, text) ==
    IF d.open THEN [d EXCEPT !.nodes = d.nodes \o text]
    ELSE [nodes |-> text, open |-> TRUE]

\* doc.close(): ends the input stream, the document finishes loading
DocClose(d) == [d EXCEPT !.open = FALSE]

\* lines 141-146 of updateIframe
Present(d, text) == DocClose(DocWrite(DocOpen(d), text))

\* the sandbox attribute of the iframe element
SandboxFlags ==
    {"allow-scripts", "allow-modals", "allow-forms", "allow-popups",
     "allow-same-origin"}

\* what a document in a frame with these flags is able to do.  It always may
\* fetch the scripts and styles it names; a script of a frame that keeps its
\* embedder's origin reaches the embedder's storage and variables.
Capabilities(flags) ==
    {"fetch"}
    \cup (IF "allow-scripts" \in flags THEN {"scripts"} ELSE {})
    \cup (IF "allow-scripts" \in flags /\ "allow-same-origin" \in flags
          THEN {"storage", "host-variables"} ELSE {})
    \cup (IF "allow-modals" \in flags THEN {"modals"} ELSE {})
    \cup (IF "allow-forms" \in flags THEN {"forms"} ELSE {})
    \cup (IF "allow-popups" \in flags THEN {"popups"} ELSE {})
    \cup (IF "allow-top-navigation" \in flags THEN {"top-navigation"} ELSE {})


----------------------------------------------------------------------------
(* What the sandboxed document does with the text it was given.  The code  *)
(* of the guarded block is read as a small script language: declarations   *)
(* (function NAME BODY, const NAME = EXPR), assignments, expression        *)
(* statements and a few whole statements that are atoms of their own.      *)

\* function bodies, parameter list included
BodyJsx == "(){ return <div>hi</div> }"
BodyDom == "(){ document.body.append(1) }"
BodyThrow == "(){ throw 1 }"
Bodies == {BodyJsx, BodyDom, BodyThrow}

\* expressions that are one atom
ArrowJsx == "() => <div>hi</div>"
ClassJsx == "class extends React.Component { render(){ return <div>hi</div> } }"
ArrowX == "() => x"
Division == "1/0"
JsxElement == "<h1>hi</h1>"

\* statements that are one atom
ThrowStmt == "throw 1;"
HostStorageStmt == "parent.localStorage.clear();"
HostVarStmt == "parent.hostVar = 1;"
LoopStmt == "while (true) {}"
StmtAtoms == {ThrowStmt, HostStorageStmt, HostVarStmt, LoopStmt}

\* reserved words among the word atoms
Keywords == {"import", "export", "default", "function", "const", "let"}

NoVal == [kind |-> "none", body |-> "", ref |-> <<>>]
FunVal(b) == [kind |-> "fun", body |-> b, ref |-> <<>>]
RefVal(n) == [kind |-> "ref", body |-> "", ref |-> n]
LitVal(k) == [kind |-> k, body |-> "", ref |-> <<>>]

NoParse == [ok |-> FALSE, next |-> 0, t |-> "syntax", name |-> <<>>, val |-> NoVal]
Parsed(n, t, name, val) == [ok |-> TRUE, next |-> n, t |-> t, name |-> name, val |-> val]

\* the word run starting at i is one identifier that is no reserved word
IsIdent(s, i) ==
    /\ i <= Len(s)
    /\ s[i] \in Word
    /\ s[i] # "1"
    /\ ~(WordEnd(s, i) = i + 1 /\ s[i] \in Keywords)

\* the atom at i is the reserved word k, standing alone
IsKeyword(s, i, k) == Lit(s, i, k) /\ WordEnd(s, i) = i + 1

\* the closing quote of the string literal opened by quote q, 0 when the line
\* or the text ends first
RECURSIVE StringEnd(_, _, _)
StringEnd(s, r, q) ==
    IF r > Len(s) THEN 0
    ELSE IF s[r] = q THEN r
    ELSE IF s[r] = "\n" THEN 0
    ELSE StringEnd(s, r + 1, q)

\* an expression at i
ParseExpr(s, i) ==
    IF i > Len(s) THEN NoParse
    ELSE IF s[i] = "1" /\ WordEnd(s, i) = i + 1
         THEN Parsed(i + 1, "expr", <<>>, LitVal("num"))
    ELSE IF IsIdent(s, i)
         THEN Parsed(WordEnd(s, i), "expr", <<>>, RefVal(SubSeq(s, i, WordEnd(s, i) - 1)))
    ELSE IF IsKeyword(s, i, "function")
         THEN LET j == SpacesEnd(s, i + 1)
                  k == IF IsIdent(s, j) THEN SpacesEnd(s, WordEnd(s, j)) ELSE j
              IN  IF k <= Len(s) /\ s[k] \in Bodies
                  THEN Parsed(k + 1, "expr", <<>>, FunVal(s[k]))
                  ELSE NoParse
    ELSE IF s[i] \in Quote
         THEN LET r == StringEnd(s, i + 1, s[i]) IN
              IF r = 0 THEN NoParse ELSE Parsed(r + 1, "expr", <<>>, LitVal("str"))
    ELSE IF s[i] = ArrowJsx \/ s[i] = ClassJsx
         THEN Parsed(i + 1, "expr", <<>>, FunVal(BodyJsx))
    ELSE IF s[i] = ArrowX THEN Parsed(i + 1, "expr", <<>>, FunVal(ArrowX))
    ELSE IF s[i] = Division THEN Parsed(i + 1, "expr", <<>>, LitVal("num"))
    ELSE IF s[i] = JsxElement THEN Parsed(i + 1, "expr", <<>>, LitVal("elem"))
    ELSE NoParse

\* the end of a statement whose last token ends before n: a semicolon, a line
\* break or the end of the text (automatic semicolon insertion); 0 otherwise
RECURSIVE StmtEnd(_, _)
StmtEnd(s, n) ==
    IF n > Len(s) THEN n
    ELSE IF s[n] = ";" \/ s[n] = "\n" THEN n + 1
    ELSE IF s[n] = " " THEN StmtEnd(s, n + 1)
    ELSE 0

Terminated(s, r, t, name) ==
    IF ~r.ok THEN NoParse
    ELSE IF StmtEnd(s, r.next) = 0 THEN NoParse
    ELSE Parsed(StmtEnd(s, r.next), t, name, r.val)

\* one statement at i, where s[i] is no white space
ParseStmt(s, i) ==
    IF s[i] = ";" THEN Parsed(i + 1, "empty", <<>>, NoVal)
    ELSE IF s[i] \in StmtAtoms THEN Parsed(i + 1, s[i], <<>>, NoVal)
    ELSE IF IsKeyword(s, i, "function")
         THEN LET c == SpacesPlus(s, i + 1) IN
              IF c = 0 \/ ~IsIdent(s, c) THEN NoParse
              ELSE LET e == WordEnd(s, c)
                       k == SpacesEnd(s, e)
                   IN  IF k <= Len(s) /\ s[k] \in Bodies
                       THEN Parsed(k + 1, "function", SubSeq(s, c, e - 1), FunVal(s[k]))
                       ELSE NoParse
    ELSE IF IsKeyword(s, i, "const") \/ IsKeyword(s, i, "let")
         THEN LET c == SpacesPlus(s, i + 1) IN
              IF c = 0 \/ ~IsIdent(s, c) THEN NoParse
              ELSE LET e == WordEnd(s, c)
                       k == SpacesEnd(s, e)
                   IN  IF Lit(s, k, "=")
                       THEN Terminated(s, ParseExpr(s, SpacesEnd(s, k + 1)),
                                       s[i], SubSeq(s, c, e - 1))
                       ELSE NoParse
    ELSE IF Lit(s, i, "{")
         THEN \* a block of one expression statement: { NAME }
              LET c == SpacesEnd(s, i + 1) IN
              IF ~IsIdent(s, c) THEN NoParse
              ELSE LET e == WordEnd(s, c)
                       k == SpacesEnd(s, e)
                   IN  IF Lit(s, k, "}")
                       THEN Parsed(k + 1, "expr", <<>>, RefVal(SubSeq(s, c, e - 1)))
                       ELSE NoParse
    ELSE IF IsIdent(s, i) /\ Lit(s, SpacesEnd(s, WordEnd(s, i)), "=")
         THEN Terminated(s, ParseExpr(s, SpacesEnd(s, SpacesEnd(s, WordEnd(s, i)) + 1)),
                         "assign", SubSeq(s, i, WordEnd(s, i) - 1))
    ELSE Terminated(s, ParseExpr(s, i), "expr", <<>>)

\* the statements of the text from i on; a text that does not parse ends in
\* a statement of type "syntax"
RECURSIVE ParseFrom(_, _)
ParseFrom(s, i) ==
    LET j == SpacesEnd(s, i) IN
    IF j > Len(s) THEN <<>>
    ELSE LET r == ParseStmt(s, j) IN
         IF r.ok THEN <<r>> \o ParseFrom(s, r.next) ELSE <<NoParse>>

Parse(s) == ParseFrom(s, 1)

NamesOf(stmts, t) == {stmts[k].name : k \in {m \in 1..Len(stmts) : stmts[m].t = t}}

\* early errors: the text does not parse, a const name is declared twice or is
\* also the name of a function of the block.  Nothing of such a script runs.
SyntaxError(stmts) ==
    \/ \E k \in 1..Len(stmts) : stmts[k].t = "syntax"
    \/ \E k, m \in 1..Len(stmts) :
          /\ k # m
          /\ stmts[k].t \in {"const", "let"}
          /\ stmts[m].t \in {"const", "let", "function"}
          /\ stmts[k].name = stmts[m].name

\* names bound in every window of the sandbox by the runtime scripts
Builtins == {<<"React">>}

\* the state of a run: the bindings in scope, whether an exception is in
\* flight, whether the run is in a loop it does not leave, and what the
\* script did to the embedding page
RunState(env) ==
    [env |-> env, thrown |-> FALSE, hangs |-> FALSE, storage |-> FALSE, vars |-> FALSE]

Bind(st, n, v) ==
    [st EXCEPT !.env = [m \in DOMAIN st.env \cup {n} |-> IF m = n THEN v ELSE st.env[m]]]

Throw(st) == [st EXCEPT !.thrown = TRUE]

\* function declarations are bound before the block runs, the last one wins
Hoisted(stmts) ==
    [n \in NamesOf(stmts, "function") \cup Builtins |->
        IF n \in Builtins /\ n \notin NamesOf(stmts, "function") THEN LitVal("obj")
        ELSE LET K == {k \in 1..Len(stmts) : stmts[k].t = "function" /\ stmts[k].name = n}
             IN  stmts[CHOOSE k \in K : \A m \in K : m <= k].val]

\* a reference to a name that is not bound (or not yet initialised) throws
Resolves(st, v) == v.kind # "ref" \/ v.ref \in DOMAIN st.env
ValueOf(st, v) == IF v.kind = "ref" THEN st.env[v.ref] ELSE v

\* a script of a document may reach into the embedding page only when the
\* frame keeps the origin of its embedder
SameOrigin(flags) == "host-variables" \in Capabilities(flags)

\* one statement; consts is the set of const names of the block
Step(stmt, st, consts, flags) ==
    IF stmt.t = ThrowStmt THEN Throw(st)
    ELSE IF stmt.t = LoopStmt THEN [st EXCEPT !.hangs = TRUE]
    ELSE IF stmt.t = HostStorageStmt
         THEN IF SameOrigin(flags) THEN [st EXCEPT !.storage = TRUE] ELSE Throw(st)
    ELSE IF stmt.t = HostVarStmt
         THEN IF SameOrigin(flags) THEN [st EXCEPT !.vars = TRUE] ELSE Throw(st)
    ELSE IF stmt.t = "const" \/ stmt.t = "let"
         THEN IF Resolves(st, stmt.val) THEN Bind(st, stmt.name, ValueOf(st, stmt.val))
              ELSE Throw(st)
    ELSE IF stmt.t = "assign"
         THEN IF stmt.name \in consts \/ ~Resolves(st, stmt.val) THEN Throw(st)
              ELSE Bind(st, stmt.name, ValueOf(st, stmt.val))
    ELSE IF stmt.t = "expr"
         THEN IF Resolves(st, stmt.val) THEN st ELSE Throw(st)
    ELSE st

RECURSIVE RunFrom(_, _, _, _, _)
RunFrom(stmts, k, st, consts, flags) ==
    IF k > Len(stmts) \/ st.thrown \/ st.hangs THEN st
    ELSE RunFrom(stmts, k + 1, Step(stmts[k], st, consts, flags), consts, flags)

\* the statements of the guarded block, run in order
RunBlock(stmts, flags) ==
    RunFrom(stmts, 1, RunState(Hoisted(stmts)), NamesOf(stmts, "const"), flags)

\* typeof NAME !== 'undefined'
Defined(st, n) == n \in DOMAIN st.env

\* what root.render(<App />) leaves in #root once React has rendered: React
\* renders after the guarded block has returned, an exception of the
\* component is not seen by the catch and React removes the tree
MountShown(v) ==
    IF v.kind = "fun" /\ v.body \in {BodyJsx, BodyDom, ArrowX} THEN "ui" ELSE "blank"

\* what main() leaves: a main that writes to the page shows it, a main that
\* throws is caught, any other main leaves #root as it was
MainThrows(v) == v.kind # "fun" \/ v.body = BodyThrow
MainShown(v) == IF v.body = BodyDom THEN "ui" ELSE "blank"

\* acts: what the document did ("mount": root.render(<App />), "main": main(),
\* "no_entry": the no-App message, "catch": the catch block, "html": plain
\* markup was laid out); shown: what the frame shows once it has settled
Outcome(acts, shown, st) ==
    [acts |-> acts, shown |-> shown, storage |-> st.storage, vars |-> st.vars,
     hang |-> st.hangs]

\* the final render logic, were main looked for before App
FinalRenderLogicMainFirst(st) ==
    IF Defined(st, <<"main">>)
    THEN IF MainThrows(st.env[<<"main">>])
         THEN Outcome({"main", "catch"}, "runtime_error", st)
         ELSE Outcome({"main"}, MainShown(st.env[<<"main">>]), st)
    ELSE IF Defined(st, <<"App">>)
    THEN Outcome({"mount"}, MountShown(st.env[<<"App">>]), st)
    ELSE Outcome({"no_entry"}, "no_entry", st)

\* the final render logic without its last else branch
FinalRenderLogicNoElse(st) ==
    IF Defined(st, <<"App">>)
    THEN Outcome({"mount"}, MountShown(st.env[<<"App">>]), st)
    ELSE IF Defined(st, <<"main">>)
    THEN IF MainThrows(st.env[<<"main">>])
         THEN Outcome({"main", "catch"}, "runtime_error", st)
         ELSE Outcome({"main"}, MainShown(st.env[<<"main">>]), st)
    ELSE Outcome({}, "blank", st)

\* the final render logic of the template, reached when the source has run
\* without an exception
FinalRenderLogic(st) ==
    IF Defined(st, <<"App">>)
    THEN Outcome({"mount"}, MountShown(st.env[<<"App">>]), st)
    ELSE IF Defined(st, <<"main">>)
    THEN IF MainThrows(st.env[<<"main">>])
         THEN Outcome({"main", "catch"}, "runtime_error", st)
         ELSE Outcome({"main"}, MainShown(st.env[<<"main">>]), st)
    ELSE Outcome({"no_entry"}, "no_entry", st)

\* try { source; final render logic } catch (err) { #root = Runtime Error }
\* A script with a syntax error is rejected as a whole when it is compiled:
\* nothing of it runs, its catch block included.
GuardedBlock(src, flags) ==
    LET stmts == Parse(src) IN
    IF SyntaxError(stmts) THEN Outcome({}, "blank", RunState(<<>>))
    ELSE LET st == RunBlock(stmts, flags) IN
         IF st.thrown THEN Outcome({"catch"}, "runtime_error", st)
         ELSE IF st.hangs THEN Outcome({}, "blank", st)
         ELSE FinalRenderLogic(st)

FirstIndex(s, a) ==
    LET I == {i \in 1..Len(s) : s[i] = a} IN
    IF I = {} THEN 0 ELSE CHOOSE i \in I : \A j \in I : i <= j

\* the text of the text/babel script element: from its opening tag to the
\* first closing tag
ScriptText(nodes) ==
    LET o == FirstIndex(nodes, BabelOpen)
        rest == SubSeq(nodes, o + 1, Len(nodes))
        c == FirstIndex(rest, ScriptClose)
    IN  IF c = 0 THEN rest ELSE SubSeq(rest, 1, c - 1)

\* what follows the end tag of the text/babel script element
AfterScript(nodes) ==
    LET o == FirstIndex(nodes, BabelOpen)
        rest == SubSeq(nodes, o + 1, Len(nodes))
        c == FirstIndex(rest, ScriptClose)
    IN  IF c = 0 THEN <<>> ELSE SubSeq(rest, c + 1, Len(rest))

\* the script is the template's: globals, try, source, final render logic, catch
WellFormed(script) ==
    /\ Len(script) >= 5
    /\ script[1] = Globals
    /\ script[2] = TryOpen
    /\ SubSeq(script, Len(script) - 2, Len(script)) = <<FinalRender, LucideInit, CatchBlock>>

\* what a loaded document does and shows.  Every document is run on its own:
\* what the scripts of an earlier document left in the window of the frame
\* is not part of the model.
Execute(nodes, flags) ==
    IF FirstIndex(nodes, BabelOpen) = 0
    THEN Outcome({"html"},
                 IF \E i \in 1..Len(nodes) : nodes[i] \notin Space THEN "ui" ELSE "blank",
                 RunState(<<>>))
    ELSE IF "allow-scripts" \notin flags
    THEN Outcome({}, "blank", RunState(<<>>))
    ELSE IF ~WellFormed(ScriptText(nodes))
    THEN \* the script element ended before the end of the template's script:
         \* it does not compile, and what follows its end tag is markup
         IF \E i \in 1..Len(AfterScript(nodes)) :
                AfterScript(nodes)[i] \notin Space \cup {ScriptClose, DocTail}
         THEN Outcome({"html"}, "leaked text", RunState(<<>>))
         ELSE Outcome({}, "blank", RunState(<<>>))
    ELSE GuardedBlock(SubSeq(ScriptText(nodes), 3, Len(ScriptText(nodes)) - 3), flags)

----------------------------------------------------------------------------
(* Source texts.                                                           *)

ImportReact == <<"import", " ", "React", " ", "from", " ", "'", "react", "'", ";", "\n">>
DefaultWidget == <<"export", " ", "default", " ", "function", " ", "Widget", BodyJsx, "\n">>
DefaultApp == <<"export", " ", "default", " ", "function", " ", "App", BodyJsx, "\n">>
DefaultArrow == <<"export", " ", "default", " ", ArrowJsx, ";", "\n">>
FunctionMain == <<"function", " ", "main", BodyDom, "\n">>
FunctionMainThrow == <<"function", " ", "main", BodyThrow, "\n">>
FunctionAppThrow == <<"function", " ", "App", BodyThrow, "\n">>
ConstX == <<"const", " ", "x", " ", "=", " ", "1", ";", "\n">>
Broken == <<"const", " ", "x", " ", "=", ";", "\n">>
Heading == <<JsxElement, "\n">>

\* the statements source texts are made of
Statements ==
    <<ImportReact, DefaultWidget, DefaultApp, DefaultArrow, FunctionMain,
      FunctionMainThrow, FunctionAppThrow, ConstX, Broken, Heading,
      <<ThrowStmt>>, <<HostStorageStmt>>, <<HostVarStmt>>>>

\* the longest source text, in statements
MaxStmts == 2

RECURSIVE Concat(_)
Concat(ss) == IF ss = <<>> THEN <<>> ELSE Head(ss) \o Concat(Tail(ss))

\* every text of exactly n statements
SourcesOfLen(n) ==
    {Concat([i \in 1..n |-> Statements[f[i]]]) : f \in [1..n -> 1..Len(Statements)]}

\* every text of at most MaxStmts statements
Sources == UNION {SourcesOfLen(n) : n \in 0..MaxStmts}

\* the forms of import and export declarations
ImportNamed ==
    <<"import", " ", "{", " ", "useState", " ", "}", " ", "from", " ", "\"", "react", "\"",
      ";", "\n">>
ImportNamespace ==
    <<"import", " ", "*", " ", "as", " ", "R", " ", "from", " ", "'", "react", "'", ";", "\n">>
ImportMultiLine ==
    <<"import", " ", "{", "\n", " ", "useState", "\n", "}", " ", "from", " ", "'", "react",
      "'", ";", "\n">>
ImportSideEffect == <<"import", " ", "'", "x", "'", ";", "\n">>
ExportConst == <<"export", " ", "const", " ", "x", " ", "=", " ", "1", ";", "\n">>
ExportList == <<"export", " ", "{", " ", "x", " ", "}", ";", "\n">>
ExportListTight == <<"export", "{", "x", "}", ";", "\n">>
ExportStar == <<"export", " ", "*", " ", "from", " ", "'", "x", "'", ";", "\n">>
DefaultIdentApp == <<"export", " ", "default", " ", "App", ";", "\n">>
DefaultIdentWidget == <<"export", " ", "default", " ", "Widget", ";", "\n">>
DefaultClass == <<"export", " ", "default", " ", ClassJsx, "\n">>
FunctionApp == <<"function", " ", "App", BodyJsx, "\n">>
FunctionWidget == <<"function", " ", "Widget", BodyJsx, "\n">>
DefaultPanel == <<"export", " ", "default", " ", "function", " ", "Panel", BodyDom, "\n">>
\* `const s = "import x from 'y'";` and `myexport = 1;`
StringWithImport ==
    <<"const", " ", "s", " ", "=", " ", "\"", "import", " ", "x", " ", "from", " ", "'", "y",
      "'", "\"", ";", "\n">>
IdentExport == <<"my", "export", " ", "=", " ", "1", ";", "\n">>

\* the statements the texts with module syntax are made of
ModuleStatements ==
    <<ImportReact, ImportNamed, ImportNamespace, ImportMultiLine, ImportSideEffect,
      ExportConst, ExportList, ExportListTight, ExportStar,
      DefaultWidget, DefaultArrow, DefaultClass, DefaultIdentApp, DefaultIdentWidget,
      FunctionApp, FunctionWidget, DefaultPanel, StringWithImport, IdentExport>>

\* every text of exactly n of them
ModuleSourcesOfLen(n) ==
    {Concat([i \in 1..n |-> ModuleStatements[f[i]]]) :
        f \in [1..n -> 1..Len(ModuleStatements)]}

\* every text of at most MaxStmts of them
ModuleSources == UNION {ModuleSourcesOfLen(n) : n \in 0..MaxStmts}

\* the scenarios of section 8 of the specification, and a text with the
\* characters of an end tag in a string literal
ScenarioApp == <<"export", " ", "default", " ", "function", " ", "App", BodyJsx>>
ScenarioDivision ==
    <<"let", " ", "x", " ", "=", " ", Division, ";", " ", "App", " ", "=", " ", ArrowX, ";">>
EndTagInString == <<"const", " ", "s", " ", "=", " ", "\"", ScriptClose, JsxElement, "\"", ";">>
Scenarios == {ScenarioApp, ScenarioDivision, EndTagInString}

\* the texts the mounted component is taken through
Examples ==
    {Heading, DefaultWidget, DefaultApp, Broken, <<HostStorageStmt, HostVarStmt>>,
     <<LoopStmt>>}

----------------------------------------------------------------------------
(* The component.                                                          *)

\* the most setTimeout callbacks pending at once
MaxTimers == 2

NoText == <<"none">>
NoKey == <<NoText, "none">>
Pending ==
    [acts |-> {}, shown |-> "blank", storage |-> FALSE, vars |-> FALSE, hang |-> FALSE]

\* useState(language === "html" || language === "jsx" || language === "tsx" ? "preview" : "code")
InitialTab(l) == IF l = "html" \/ l = "jsx" \/ l = "tsx" THEN "preview" ELSE "code"

InitWith(S) ==
    /\ code \in S
    /\ language \in Languages
    /\ mounted = FALSE
    /\ activeTab = InitialTab(language)
    /\ isFullscreen = FALSE
    /\ copied = FALSE
    /\ timers = 0
    /\ clipboard = NoText
    /\ iframeRef = FALSE
    /\ doc = EmptyDoc
    /\ loaded = FALSE
    /\ result = Pending
    /\ hostStorage = "intact"
    /\ hostVar = 0
    /\ hostBlocked = FALSE
    /\ written = NoText
    /\ lastKey = NoKey
    /\ again = NoText
    /\ overwrote = FALSE
    /\ reloadFrom = "none"

\* no code element is being rendered by Chat
NoElement == [fenced |-> FALSE, inline |-> "undefined", tag |-> <<>>, text |-> <<>>]
NotRendered == [as |-> "nothing", code |-> <<>>, language |-> <<>>]

RouteIdle ==
    /\ element = NoElement
    /\ rendered = NotRendered

NoBody == [error |-> "none", audioContent |-> "none", audio |-> "none"]

Json(status, body) == [status |-> status, body |-> body]

NoGemini == [kind |-> "none", blockReason |-> "none", audioPart |-> FALSE, message |-> <<>>]

NoSpeak ==
    [messageId |-> "null", gemini |-> NoGemini, response |-> Json(0, NoBody),
     started |-> "nothing"]

\* the state of the speech playback after construction, on platform p
SpeechInit(p) ==
    /\ speakingMessageId = "null"
    /\ isGeneratingSpeech = "null"
    /\ audioRef = 0
    /\ playing = {}
    /\ utterances = <<>>
    /\ requests = {}
    /\ nextSpeak = 1
    /\ platform = p
    /\ lastSpeak = NoSpeak

DefaultPlatform == [apiKey |-> TRUE, speechSynthesis |-> TRUE, route |-> "part_001"]

SpeechIdle == SpeechInit(DefaultPlatform)

\* the state of the transcript after construction
SubmitIdle ==
    /\ messages = <<>>
    /\ input = <<>>
    /\ selectedImage = FALSE
    /\ isLoading = FALSE
    /\ renderedLoading = FALSE
    /\ pending = {}
    /\ submits = 0

\* the state of the microphone after construction
MicIdle ==
    /\ isListening = FALSE
    /\ isMicInitializing = FALSE
    /\ recognition = "inactive"
    /\ listenTimers = 0
    /\ initTimers = 0
    /\ starts = 0

ChatIdle ==
    /\ RouteIdle
    /\ SpeechIdle
    /\ SubmitIdle
    /\ MicIdle

Init == InitWith(Examples) /\ ChatIdle

\* updateIframe() on the element ref (d its document), with the props c and l
\* of the render the callback belongs to
updateIframe(ref, d, c, l) ==
    IF ~ref
    THEN UNCHANGED <<doc, loaded, result, written, lastKey, again, overwrote>>
    ELSE /\ doc' = Present(d, content(c, l))
         /\ loaded' = FALSE
         /\ result' = Pending
         /\ written' = content(c, l)
         /\ lastKey' = <<c, l>>
         /\ again' = IF lastKey = <<c, l>> THEN written ELSE NoText
         /\ overwrote' = (d.nodes # <<>> /\ d.nodes # content(c, l))

\* the effect with the dependency list [activeTab]: it does not run again
\* when only the props have changed
EffectTabOnly(t, ref, d, c, l) ==
    IF t = "preview" /\ c = code THEN updateIframe(ref, d, c, l)
    ELSE UNCHANGED <<doc, loaded, result, written, lastKey, again, overwrote>>

\* useEffect(() => { if (activeTab === "preview") updateIframe() }, [activeTab, updateIframe])
\* after a render with tab t and props c, l
Effect(t, ref, d, c, l) ==
    IF t = "preview" THEN updateIframe(ref, d, c, l)
    ELSE UNCHANGED <<doc, loaded, result, written, lastKey, again, overwrote>>

\* first commit: the iframe element exists in preview mode, then the effect runs
Mount ==
    /\ ~hostBlocked
    /\ ~mounted
    /\ mounted' = TRUE
    /\ iframeRef' = (activeTab = "preview")
    /\ Effect(activeTab, iframeRef', EmptyDoc, code, language)
    /\ UNCHANGED <<code, language, activeTab, isFullscreen, copied, timers, clipboard,
                   hostStorage, hostVar>>
    /\ reloadFrom' = "none"
    /\ UNCHANGED hostBlocked
    /\ UNCHANGED chatVars

\* a tab switch that keeps the cleaned text in place of the text given
SetActiveTabKeepingCleaned(t) ==
    /\ mounted
    /\ ~hostBlocked
    /\ IF t = activeTab
       THEN UNCHANGED vars
       ELSE /\ activeTab' = t
            /\ iframeRef' = (t = "preview")
            /\ code' = IF language \in ScriptLanguages THEN cleanedCode(code) ELSE code
            /\ IF t = "preview"
               THEN Effect(t, TRUE, EmptyDoc, code, language)
               ELSE /\ doc' = EmptyDoc
                    /\ loaded' = FALSE
                    /\ result' = Pending
                    /\ UNCHANGED <<written, lastKey, again, overwrote>>
            /\ reloadFrom' = "none"
            /\ UNCHANGED <<language, mounted, isFullscreen, copied, timers,
                           clipboard, hostStorage, hostVar, hostBlocked>>
            /\ UNCHANGED chatVars

\* onClick={() => setActiveTab(t)}: the other branch of the conditional is
\* rendered (a new iframe element, or none), then the effect runs
SetActiveTab(t) ==
    /\ mounted
    /\ ~hostBlocked
    /\ IF t = activeTab
       THEN UNCHANGED vars
       ELSE /\ activeTab' = t
            /\ iframeRef' = (t = "preview")
            /\ IF t = "preview"
               THEN Effect(t, TRUE, EmptyDoc, code, language)
               ELSE /\ doc' = EmptyDoc
                    /\ loaded' = FALSE
                    /\ result' = Pending
                    /\ UNCHANGED <<written, lastKey, again, overwrote>>
            /\ reloadFrom' = "none"
            /\ UNCHANGED <<code, language, mounted, isFullscreen, copied, timers,
                           clipboard, hostStorage, hostVar, hostBlocked>>
            /\ UNCHANGED chatVars

\* the chat re-renders the block with another text: updateIframe is a new
\* callback ([code, language]) and the effect runs again
SourceChange(c) ==
    /\ ~hostBlocked
    /\ mounted
    /\ c # code
    /\ code' = c
    /\ Effect(activeTab, iframeRef, doc, c, language)
    /\ UNCHANGED <<language, mounted, activeTab, isFullscreen, copied, timers, clipboard,
                   iframeRef, hostStorage, hostVar>>
    /\ reloadFrom' = "none"
    /\ UNCHANGED hostBlocked
    /\ UNCHANGED chatVars

\* a reload button that leaves a document composed from the current props
\* alone
ReloadIfStale ==
    /\ ~hostBlocked
    /\ mounted
    /\ IF doc.nodes = content(code, language)
       THEN UNCHANGED <<doc, loaded, result, written, lastKey, again, overwrote>>
       ELSE updateIframe(iframeRef, doc, code, language)
    /\ reloadFrom' = IF ~iframeRef THEN "no iframe"
                     ELSE IF ~loaded THEN "loading" ELSE result.shown
    /\ UNCHANGED <<code, language, mounted, activeTab, isFullscreen, copied, timers,
                   clipboard, iframeRef, hostStorage, hostVar>>
    /\ UNCHANGED hostBlocked
    /\ UNCHANGED chatVars

\* onClick={() => updateIframe()}
Reload ==
    /\ ~hostBlocked
    /\ mounted
    /\ updateIframe(iframeRef, doc, code, language)
    /\ reloadFrom' = IF ~iframeRef THEN "no iframe"
                     ELSE IF ~loaded THEN "loading" ELSE result.shown
    /\ UNCHANGED <<code, language, mounted, activeTab, isFullscreen, copied, timers,
                   clipboard, iframeRef, hostStorage, hostVar>>
    /\ UNCHANGED hostBlocked
    /\ UNCHANGED chatVars

\* copyToClipboard
CopyToClipboard ==
    /\ ~hostBlocked
    /\ mounted
    /\ timers < MaxTimers
    /\ clipboard' = code
    /\ copied' = TRUE
    /\ timers' = timers + 1
    /\ UNCHANGED <<code, language, mounted, activeTab, isFullscreen, iframeRef, doc,
                   loaded, result, hostStorage, hostVar, written, lastKey, again, overwrote>>
    /\ reloadFrom' = "none"
    /\ UNCHANGED hostBlocked
    /\ UNCHANGED chatVars

\* () => setCopied(false), 2000 ms after a copy
CopiedTimeout ==
    /\ ~hostBlocked
    /\ timers > 0
    /\ timers' = timers - 1
    /\ copied' = FALSE
    /\ UNCHANGED <<code, language, mounted, activeTab, isFullscreen, clipboard, iframeRef,
                   doc, loaded, result, hostStorage, hostVar, written, lastKey, again, overwrote>>
    /\ reloadFrom' = "none"
    /\ UNCHANGED hostBlocked
    /\ UNCHANGED chatVars

\* a fullscreen toggle after which the effect runs again
ToggleFullscreenRendering ==
    /\ ~hostBlocked
    /\ mounted
    /\ isFullscreen' = ~isFullscreen
    /\ Effect(activeTab, iframeRef, doc, code, language)
    /\ UNCHANGED <<code, language, mounted, activeTab, copied, timers, clipboard, iframeRef,
                   hostStorage, hostVar, hostBlocked>>
    /\ reloadFrom' = "none"
    /\ UNCHANGED chatVars

\* onClick={() => setIsFullscreen(!isFullscreen)}
ToggleFullscreen ==
    /\ ~hostBlocked
    /\ mounted
    /\ isFullscreen' = ~isFullscreen
    /\ UNCHANGED <<code, language, mounted, activeTab, copied, timers, clipboard, iframeRef,
                   doc, loaded, result, hostStorage, hostVar, written, lastKey, again, overwrote>>
    /\ reloadFrom' = "none"
    /\ UNCHANGED hostBlocked
    /\ UNCHANGED chatVars

\* the iframe has fetched what the written document names and its scripts
\* run.  A frame that keeps the origin of its embedder runs them on the
\* embedder's thread: while a script does not return, nothing of the page runs.
SandboxRun ==
    /\ iframeRef
    /\ ~loaded
    /\ ~hostBlocked
    /\ result' = Execute(doc.nodes, SandboxFlags)
    /\ loaded' = ~result'.hang
    /\ hostBlocked' = (result'.hang /\ SameOrigin(SandboxFlags))
    /\ hostStorage' = IF result'.storage THEN "cleared" ELSE hostStorage
    /\ hostVar' = IF result'.vars THEN 1 ELSE hostVar
    /\ UNCHANGED <<code, language, mounted, activeTab, isFullscreen, copied, timers,
                   clipboard, iframeRef, doc, written, lastKey, again, overwrote>>
    /\ reloadFrom' = "none"
    /\ UNCHANGED chatVars

Next ==
    \/ Mount
    \/ \E t \in {"preview", "code"} : SetActiveTab(t)
    \/ \E c \in Examples : SourceChange(c)
    \/ Reload
    \/ CopyToClipboard
    \/ CopiedTimeout
    \/ ToggleFullscreen
    \/ SandboxRun

Spec == Init /\ [][Next]_vars

\* one code block of every source text, mounted, loaded and reloaded
RenderInit == InitWith(Sources) /\ ChatIdle

RenderNext ==
    \/ Mount
    \/ SetActiveTab("preview")
    \/ Reload
    \/ SandboxRun

RenderSpec == RenderInit /\ [][RenderNext]_vars

\* one code block of every text with module syntax, in a script language,
\* mounted and loaded
NormalizeInit == InitWith(ModuleSources) /\ language \in ScriptLanguages /\ ChatIdle

NormalizeNext ==
    \/ Mount
    \/ SetActiveTab("preview")
    \/ SandboxRun

NormalizeSpec == NormalizeInit /\ [][NormalizeNext]_vars

\* one code block of a scenario text, taken through everything but a change
\* of its text
ScenarioInit == InitWith(Scenarios) /\ ChatIdle

ScenarioNext ==
    \/ Mount
    \/ \E t \in {"preview", "code"} : SetActiveTab(t)
    \/ Reload
    \/ CopyToClipboard
    \/ CopiedTimeout
    \/ ToggleFullscreen
    \/ SandboxRun

ScenarioSpec == ScenarioInit /\ [][ScenarioNext]_vars

----------------------------------------------------------------------------
(* The code component Chat passes to ReactMarkdown, which calls it for     *)
(* every code element of the markdown of a message.                        *)

\* the longest tag of a fenced block, in atoms
MaxTagAtoms == 2

\* the atoms of tags: names of languages and a character that is not of \w
TagAtoms == {"html", "jsx", "tsx", "javascript", "typescript", "python", "erb", "+"}

TagsOfLen(n) == [1..n -> TagAtoms]

\* the first word of the info string of a fence; <<>> for a fence without one
Tags == UNION {TagsOfLen(n) : n \in 0..MaxTagAtoms}

\* the text of a code element
Texts == {<<>>, <<"x">>, <<"x", "\n">>, Heading}

\* the code elements of a message: fenced blocks and inline code.  The prop
\* inline is true, false or not passed at all, with the version of
\* react-markdown in use.
Elements ==
    {[fenced |-> TRUE, inline |-> i, tag |-> g, text |-> t] :
        i \in {"false", "undefined"}, g \in Tags, t \in Texts}
    \cup {[fenced |-> FALSE, inline |-> i, tag |-> <<>>, text |-> t] :
        i \in {"true", "undefined"}, t \in Texts}

\* the props the code component is called with: a fenced block with a tag has
\* the class language-TAG, and its text is followed by a line break
ClassNameOf(el) == IF el.fenced /\ el.tag # <<>> THEN <<"language-">> \o el.tag ELSE <<>>
ChildrenOf(el) == IF el.fenced THEN el.text \o <<"\n">> ELSE el.text

\* /language-(\w+)/.exec(className || ""): the capture of the first match,
\* <<>> (the empty string) when there is none
RECURSIVE LanguageFrom(_, _)
LanguageFrom(cls, i) ==
    IF i > Len(cls) THEN <<>>
    ELSE IF cls[i] = "language-" /\ WordEnd(cls, i + 1) > i + 1
         THEN SubSeq(cls, i + 1, WordEnd(cls, i + 1) - 1)
    ELSE LanguageFrom(cls, i + 1)

LanguageOf(cls) == LanguageFrom(cls, 1)

\* String(children).replace(/\n$/, "")
StripFinalNewline(t) ==
    IF Len(t) > 0 /\ t[Len(t)] = "\n" THEN SubSeq(t, 1, Len(t) - 1) ELSE t

\* ["html", "jsx", "tsx", "javascript", "typescript"].includes(language)
PreviewableTags == {<<l>> : l \in Languages}
isPreviewable(l) == l \in PreviewableTags

\* code({ inline, className, children, ...props }): what is returned
CodeComponent(inl, cls, children) ==
    IF inl # "true" /\ isPreviewable(LanguageOf(cls))
    THEN [as |-> "CodePreview", code |-> StripFinalNewline(children),
          language |-> LanguageOf(cls)]
    ELSE IF inl # "true" /\ LanguageOf(cls) # <<>>
    THEN [as |-> "SyntaxHighlighter", code |-> StripFinalNewline(children),
          language |-> LanguageOf(cls)]
    ELSE [as |-> "code", code |-> children, language |-> <<>>]

\* ReactMarkdown renders the code element
RenderCode ==
    /\ rendered = NotRendered
    /\ element # NoElement
    /\ rendered' = CodeComponent(element.inline, ClassNameOf(element), ChildrenOf(element))
    /\ UNCHANGED <<element, previewVars, speechVars, submitVars, micVars>>

\* every code element of a message, rendered
RouteInit ==
    /\ InitWith({<<>>})
    /\ language = "html"
    /\ element \in Elements
    /\ rendered = NotRendered
    /\ SpeechIdle
    /\ SubmitIdle
    /\ MicIdle

RouteNext == RenderCode

RouteSpec == RouteInit /\ [][RouteNext]_vars

----------------------------------------------------------------------------
(* The generate-speech route.                                              *)

\* what model.generateContent() can do: answer (with or without an audio
\* part, or with the prompt blocked), reject with an Error, or reject with
\* a value that is not an Error
GeminiResults ==
    {[kind |-> "response", blockReason |-> "none", audioPart |-> TRUE, message |-> <<>>],
     [kind |-> "response", blockReason |-> "none", audioPart |-> FALSE, message |-> <<>>],
     [kind |-> "response", blockReason |-> "SAFETY", audioPart |-> FALSE, message |-> <<>>],
     [kind |-> "error", blockReason |-> "none", audioPart |-> FALSE,
      message |-> <<"[", "400", " Bad Request", "]">>],
     [kind |-> "error", blockReason |-> "none", audioPart |-> FALSE,
      message |-> <<"response ", "modality", " is not supported">>],
     [kind |-> "error", blockReason |-> "none", audioPart |-> FALSE,
      message |-> <<"[", "503", " Service Unavailable", "]">>],
     [kind |-> "thrown", blockReason |-> "none", audioPart |-> FALSE, message |-> <<>>]}

\* String.prototype.includes, for one of the pieces a message is made of
includes(message, piece) == \E i \in 1..Len(message) : message[i] = piece

\* the catch block of both routes
RouteCatch(errorMessage) ==
    IF includes(errorMessage, "modality") \/ includes(errorMessage, "400")
    THEN Json(200, [NoBody EXCEPT !.error = "GEMINI_MODALITY_UNSUPPORTED"])
    ELSE Json(500, [NoBody EXCEPT !.error = "Speech Generation Error"])

\* error instanceof Error ? error.message : "Unknown error"
ErrorMessageOf(g) == IF g.kind = "error" THEN g.message ELSE <<"Unknown error">>

\* the route of part_001: it looks at promptFeedback and answers with audioContent
POSTChecksTextFirst(apiKey, text, g) ==
    IF text = <<>> THEN Json(400, [NoBody EXCEPT !.error = "Text is required"])
    ELSE IF ~apiKey THEN Json(500, [NoBody EXCEPT !.error = "Configuration Error"])
    ELSE IF g.kind # "response" THEN RouteCatch(ErrorMessageOf(g))
    ELSE IF g.blockReason # "none" THEN RouteCatch(<<"Content blocked: ", g.blockReason>>)
    ELSE IF g.audioPart THEN Json(200, [NoBody EXCEPT !.audioContent = "wav"])
    ELSE RouteCatch(<<"No audio content generated">>)

POST(apiKey, text, g) ==
    IF ~apiKey THEN Json(500, [NoBody EXCEPT !.error = "Configuration Error"])
    ELSE IF text = <<>> THEN Json(400, [NoBody EXCEPT !.error = "Text is required"])
    ELSE IF g.kind # "response" THEN RouteCatch(ErrorMessageOf(g))
    ELSE IF g.blockReason # "none" THEN RouteCatch(<<"Content blocked: ", g.blockReason>>)
    ELSE IF g.audioPart THEN Json(200, [NoBody EXCEPT !.audioContent = "wav"])
    ELSE RouteCatch(<<"No audio content generated">>)

\* the route of src/app/api/generate-speech/route.ts: it answers with audio
POSTRoute(apiKey, text, g) ==
    IF ~apiKey THEN Json(500, [NoBody EXCEPT !.error = "Configuration Error"])
    ELSE IF text = <<>> THEN Json(400, [NoBody EXCEPT !.error = "Text is required"])
    ELSE IF g.kind # "response" THEN RouteCatch(ErrorMessageOf(g))
    ELSE IF g.audioPart THEN Json(200, [NoBody EXCEPT !.audio = "raw"])
    ELSE RouteCatch(<<"No audio content generated">>)

----------------------------------------------------------------------------
(* Chat.speak.                                                             *)

MaxSpeaks == 3

MessageIds == {"m1", "m2"}

\* the content of the messages: they have no code fence and no dollar sign
MessageText == [m \in MessageIds |-> IF m = "m1" THEN <<"hi">> ELSE <<"#">>]

\* the last one stands for the grave accent
MarkdownMarks == {"*", "#", "_", "~", "grave"}

\* text.replace(/[*#_~`]/g, "")
RECURSIVE cleanText(_)
cleanText(text) ==
    IF text = <<>> THEN <<>>
    ELSE IF Head(text) \in MarkdownMarks THEN cleanText(Tail(text))
    ELSE <<Head(text)>> \o cleanText(Tail(text))

Platforms ==
    [apiKey : BOOLEAN, speechSynthesis : BOOLEAN, route : {"part_001", "route.ts"}]

\* audioRef.current.pause() where there is one, audioRef.current = null
PauseCurrent ==
    /\ playing' = {a \in playing : a.id # audioRef}
    /\ audioRef' = 0

\* window.speechSynthesis.cancel() where there is one
CancelSynthesis == utterances' = <<>>

\* speak(text, messageId) up to its await, or to its return
Speak(messageId) ==
    /\ PauseCurrent
    /\ CancelSynthesis
    /\ speakingMessageId' = "null"
    /\ IF speakingMessageId = messageId \/ isGeneratingSpeech = messageId
       THEN /\ isGeneratingSpeech' = "null"
            /\ UNCHANGED <<requests, nextSpeak>>
       ELSE /\ nextSpeak <= MaxSpeaks
            /\ isGeneratingSpeech' = messageId
            /\ requests' = requests \cup {[id |-> nextSpeak, messageId |-> messageId]}
            /\ nextSpeak' = nextSpeak + 1
    /\ lastSpeak' = NoSpeak
    /\ UNCHANGED <<platform, routeVars, submitVars, micVars, previewVars>>

\* the catch block of speak(): the fallback of the browser
SpeakCatch(r, g, response) ==
    /\ isGeneratingSpeech' = "null"
    /\ IF platform.speechSynthesis
       THEN /\ utterances' = Append(utterances, r.messageId)
            /\ speakingMessageId' = r.messageId
            /\ lastSpeak' = [messageId |-> r.messageId, gemini |-> g, response |-> response,
                             started |-> "utterance"]
       ELSE /\ lastSpeak' = [messageId |-> r.messageId, gemini |-> g, response |-> response,
                             started |-> "nothing"]
            /\ UNCHANGED <<utterances, speakingMessageId>>
    /\ UNCHANGED <<audioRef, playing>>

\* speak() from the answer of the route on
SpeakContinue(r, g, response) ==
    IF response.body.error = "GEMINI_MODALITY_UNSUPPORTED" /\ platform.speechSynthesis
    THEN /\ utterances' = Append(utterances, r.messageId)
         /\ speakingMessageId' = r.messageId
         /\ isGeneratingSpeech' = "null"
         /\ lastSpeak' = [messageId |-> r.messageId, gemini |-> g, response |-> response,
                             started |-> "utterance"]
         /\ UNCHANGED <<audioRef, playing>>
    ELSE IF response.body.error # "none" \/ response.body.audioContent = "none"
    THEN SpeakCatch(r, g, response)
    ELSE /\ audioRef' = r.id
         /\ playing' = playing \cup {[id |-> r.id, messageId |-> r.messageId]}
         /\ isGeneratingSpeech' = "null"
         /\ speakingMessageId' = r.messageId
         /\ lastSpeak' = [messageId |-> r.messageId, gemini |-> g, response |-> response,
                             started |-> "audio"]
         /\ UNCHANGED utterances

\* the answer of the deployed route to the request of r
Answer(r, g) ==
    IF platform.route = "part_001"
    THEN POST(platform.apiKey, cleanText(MessageText[r.messageId]), g)
    ELSE POSTRoute(platform.apiKey, cleanText(MessageText[r.messageId]), g)

\* the answer of the route arrives
SpeechResponse(r, g) ==
    /\ r \in requests
    /\ requests' = requests \ {r}
    /\ SpeakContinue(r, g, Answer(r, g))
    /\ UNCHANGED <<nextSpeak, platform, routeVars, submitVars, micVars, previewVars>>

\* fetch() rejects: no answer arrives
FetchFails(r) ==
    /\ r \in requests
    /\ requests' = requests \ {r}
    /\ SpeakCatch(r, NoGemini, Json(0, NoBody))
    /\ UNCHANGED <<nextSpeak, platform, routeVars, submitVars, micVars, previewVars>>

\* audio.onended, audio.onerror
AudioEnded(a) ==
    /\ a \in playing
    /\ playing' = playing \ {a}
    /\ speakingMessageId' = "null"
    /\ audioRef' = 0
    /\ lastSpeak' = NoSpeak
    /\ UNCHANGED <<isGeneratingSpeech, utterances, requests, nextSpeak, platform,
                   routeVars, submitVars, micVars, previewVars>>

\* utterance.onend
UtteranceEnd ==
    /\ utterances # <<>>
    /\ utterances' = Tail(utterances)
    /\ speakingMessageId' = "null"
    /\ lastSpeak' = NoSpeak
    /\ UNCHANGED <<isGeneratingSpeech, audioRef, playing, requests, nextSpeak, platform,
                   routeVars, submitVars, micVars, previewVars>>

SpeechSpecInit ==
    /\ InitWith({<<>>})
    /\ language = "html"
    /\ RouteIdle
    /\ SubmitIdle
    /\ MicIdle
    /\ \E p \in Platforms : SpeechInit(p)

SpeechNext ==
    \/ \E m \in MessageIds : Speak(m)
    \/ \E r \in requests, g \in GeminiResults : SpeechResponse(r, g)
    \/ \E r \in requests : FetchFails(r)
    \/ \E a \in playing : AudioEnded(a)
    \/ UtteranceEnd

SpeechSpec == SpeechSpecInit /\ [][SpeechNext]_vars

----------------------------------------------------------------------------
(* Chat.handleSubmit.                                                      *)

MaxSubmits == 2

\* what can be typed into the input field
Inputs == {<<>>, <<" ">>, <<"hi">>, <<"/image ", "cat">>}

\* String.prototype.trim
RECURSIVE trimStart(_)
trimStart(t) == IF t # <<>> /\ Head(t) \in Space THEN trimStart(Tail(t)) ELSE t

RECURSIVE trimEnd(_)
trimEnd(t) ==
    IF t # <<>> /\ t[Len(t)] \in Space THEN trimEnd(SubSeq(t, 1, Len(t) - 1)) ELSE t

trim(t) == trimEnd(trimStart(t))

\* messageInput.toLowerCase().startsWith("/image ")
IsImageCommand(t) == t # <<>> /\ Head(t) = "/image "

\* the outcomes of a request: a reply, a body with an error field, and a
\* rejected fetch or a body that is not JSON
FetchOutcomes == {"reply", "error", "rejected"}

userMessage(n, messageInput, attached) ==
    [of |-> n, role |-> "user", content |-> messageInput, type |-> "text",
     attachments |-> attached]

assistantMessage(p, outcome) ==
    IF outcome = "reply"
    THEN [of |-> p.of, role |-> "assistant",
          content |-> IF p.image THEN <<"Generated image for: ">> ELSE <<"reply">>,
          type |-> IF p.image THEN "image" ELSE "text", attachments |-> FALSE]
    ELSE [of |-> p.of, role |-> "assistant", content |-> <<"Error: ", outcome>>,
          type |-> "text", attachments |-> FALSE]

\* onChange of the input field
SetInput(v) ==
    /\ input' = v
    /\ renderedLoading' = isLoading
    /\ UNCHANGED <<messages, selectedImage, isLoading, pending, submits>>
    /\ UNCHANGED <<routeVars, speechVars, micVars, previewVars>>

\* an image is chosen and read, or the attached one is removed
SetSelectedImage(b) ==
    /\ selectedImage' = b
    /\ renderedLoading' = isLoading
    /\ UNCHANGED <<messages, input, isLoading, pending, submits>>
    /\ UNCHANGED <<routeVars, speechVars, micVars, previewVars>>

\* handleSubmit without the isLoading part of its guard
handleSubmitWhileLoading(isImage) ==
    /\ submits < MaxSubmits
    /\ submits' = submits + 1
    /\ IF trim(input) = <<>> /\ ~selectedImage
       THEN /\ renderedLoading' = isLoading
            /\ UNCHANGED <<messages, input, selectedImage, isLoading, pending>>
       ELSE /\ messages' = Append(messages, userMessage(submits + 1, input, selectedImage))
            /\ input' = <<>>
            /\ selectedImage' = FALSE
            /\ isLoading' = TRUE
            /\ renderedLoading' = TRUE
            /\ pending' = pending \cup
                   {[of |-> submits + 1, image |-> isImage \/ IsImageCommand(input)]}
    /\ UNCHANGED <<routeVars, speechVars, micVars, previewVars>>

\* handleSubmit(e, isImage) up to its await, or to its return; the state
\* updates of an event handler are rendered before the next event
handleSubmit(isImage) ==
    /\ submits < MaxSubmits
    /\ submits' = submits + 1
    /\ IF (trim(input) = <<>> /\ ~selectedImage) \/ renderedLoading
       THEN /\ renderedLoading' = isLoading
            /\ UNCHANGED <<messages, input, selectedImage, isLoading, pending>>
       ELSE /\ messages' = Append(messages, userMessage(submits + 1, input, selectedImage))
            /\ input' = <<>>
            /\ selectedImage' = FALSE
            /\ isLoading' = TRUE
            /\ renderedLoading' = TRUE
            /\ pending' = pending \cup
                   {[of |-> submits + 1, image |-> isImage \/ IsImageCommand(input)]}
    /\ UNCHANGED <<routeVars, speechVars, micVars, previewVars>>

\* handleSubmit from its await on: try, catch and finally; the render of
\* these state updates comes later
SubmitResponse(p, outcome) ==
    /\ p \in pending
    /\ pending' = pending \ {p}
    /\ messages' = Append(messages, assistantMessage(p, outcome))
    /\ isLoading' = FALSE
    /\ UNCHANGED <<input, selectedImage, renderedLoading, submits>>
    /\ UNCHANGED <<routeVars, speechVars, micVars, previewVars>>

\* React renders Chat with the current state
RenderChat ==
    /\ renderedLoading # isLoading
    /\ renderedLoading' = isLoading
    /\ UNCHANGED <<messages, input, selectedImage, isLoading, pending, submits>>
    /\ UNCHANGED <<routeVars, speechVars, micVars, previewVars>>

SubmitInit ==
    /\ InitWith({<<>>})
    /\ language = "html"
    /\ RouteIdle
    /\ SpeechIdle
    /\ SubmitIdle
    /\ MicIdle

SubmitNext ==
    \/ \E v \in Inputs : SetInput(v)
    \/ \E b \in BOOLEAN : SetSelectedImage(b)
    \/ \E isImage \in BOOLEAN : handleSubmit(isImage)
    \/ \E p \in pending, o \in FetchOutcomes : SubmitResponse(p, o)
    \/ RenderChat

\* every request comes to an end: with an answer or with a failure
SubmitSpec ==
    /\ SubmitInit
    /\ [][SubmitNext]_vars
    /\ WF_vars(\E p \in pending, o \in FetchOutcomes : SubmitResponse(p, o))

----------------------------------------------------------------------------
(* Speech recognition and Chat.toggleListening.                            *)

MaxStarts == 3

\* recognition is "inactive", "starting" (start() has been called, the
\* start event has not come yet), "active" (between the start event and
\* the end), "stopping" (stop() has been called, the end event has not
\* come yet) or "failed" (the error event has come, the end event not yet)

\* toggleListening(): stop() where isListening, start() otherwise; start()
\* throws on a recognition that has been started, stop() never does
toggleListening ==
    /\ IF isListening
       THEN /\ recognition' =
                   IF recognition \in {"starting", "active"} THEN "stopping" ELSE recognition
            /\ UNCHANGED <<isMicInitializing, initTimers, starts>>
       ELSE /\ starts < MaxStarts
            /\ starts' = starts + 1
            /\ IF recognition = "inactive"
               THEN /\ isMicInitializing' = TRUE
                    /\ recognition' = "starting"
                    /\ initTimers' = initTimers + 1
               ELSE /\ isMicInitializing' = FALSE
                    /\ UNCHANGED <<recognition, initTimers>>
    /\ UNCHANGED <<isListening, listenTimers>>
    /\ UNCHANGED <<routeVars, speechVars, submitVars, previewVars>>

\* recognition.onstart
onstart ==
    /\ recognition = "starting"
    /\ recognition' = "active"
    /\ listenTimers' = listenTimers + 1
    /\ UNCHANGED <<isListening, isMicInitializing, initTimers, starts>>
    /\ UNCHANGED <<routeVars, speechVars, submitVars, previewVars>>

\* recognition.onerror; the end event follows it
onerror ==
    /\ recognition \in {"starting", "active", "stopping"}
    /\ recognition' = "failed"
    /\ isListening' = FALSE
    /\ isMicInitializing' = FALSE
    /\ UNCHANGED <<listenTimers, initTimers, starts>>
    /\ UNCHANGED <<routeVars, speechVars, submitVars, previewVars>>

\* recognition.onend
onend ==
    /\ recognition \in {"active", "stopping", "failed"}
    /\ recognition' = "inactive"
    /\ isListening' = FALSE
    /\ isMicInitializing' = FALSE
    /\ UNCHANGED <<listenTimers, initTimers, starts>>
    /\ UNCHANGED <<routeVars, speechVars, submitVars, previewVars>>

\* the callback of the timeout of onstart
ListenTimeout ==
    /\ listenTimers > 0
    /\ listenTimers' = listenTimers - 1
    /\ isListening' = TRUE
    /\ isMicInitializing' = FALSE
    /\ UNCHANGED <<recognition, initTimers, starts>>
    /\ UNCHANGED <<routeVars, speechVars, submitVars, previewVars>>

\* the callback of the timeout of toggleListening
InitTimeout ==
    /\ initTimers > 0
    /\ initTimers' = initTimers - 1
    /\ isMicInitializing' = FALSE
    /\ UNCHANGED <<isListening, recognition, listenTimers, starts>>
    /\ UNCHANGED <<routeVars, speechVars, submitVars, previewVars>>

MicInit ==
    /\ InitWith({<<>>})
    /\ language = "html"
    /\ RouteIdle
    /\ SpeechIdle
    /\ SubmitIdle
    /\ MicIdle

MicNext ==
    \/ toggleListening
    \/ onstart
    \/ onerror
    \/ onend
    \/ ListenTimeout
    \/ InitTimeout

MicSpec == MicInit /\ [][MicNext]_vars

----------------------------------------------------------------------------
(* Properties.                                                             *)

\* the iframe shows the document of the current props and it has run
Settled == mounted /\ activeTab = "preview" /\ iframeRef /\ loaded

\* the text between the try and the final render logic of a composed document
GuardedSource(nodes) ==
    LET t == ScriptText(nodes) IN
    IF WellFormed(t) THEN SubSeq(t, 3, Len(t) - 3) ELSE <<>>

\* the statements the sandbox reads in the guarded block for source text src
StatementsOf(src) == Parse(cleanedCode(src))

\* the run of those statements
RunOf(src) == RunBlock(StatementsOf(src), SandboxFlags)

\* the source text compiles and its statements run to the end
Completes(src) ==
    /\ ~SyntaxError(StatementsOf(src))
    /\ ~RunOf(src).thrown
    /\ ~RunOf(src).hangs

\* the names the source text leaves behind for the final render logic
HasApp(src) == <<"App">> \in DOMAIN RunOf(src).env
HasMain(src) == <<"main">> \in DOMAIN RunOf(src).env

\* C1: in preview mode, once the presented document has finished executing,
\* the frame shows rendered UI, error text or the no-entry-point notice; it
\* is never blank.
C1_NeverBlank ==
    Settled => result.shown \in {"ui", "runtime_error", "no_entry"}

\* the execution of the source text fails: it does not compile, a statement
\* throws, main throws, or the mounted App throws when React renders it
ExecutionFails(src) ==
    \/ SyntaxError(StatementsOf(src))
    \/ RunOf(src).thrown
    \/ /\ HasApp(src)
       /\ RunOf(src).env[<<"App">>].body = BodyThrow
    \/ /\ ~HasApp(src)
       /\ HasMain(src)
       /\ MainThrows(RunOf(src).env[<<"main">>])

\* C2: for a script language, every execution-time failure of the source
\* (syntax error, runtime exception, error while mounting) is caught inside
\* the document and rendered as diagnostic text in #root.
C2_FailuresCaught ==
    (Settled /\ language \in ScriptLanguages /\ ExecutionFails(code))
        => ("catch" \in result.acts /\ result.shown = "runtime_error")

\* C3: whatever the script in the iframe does, the state of the host page
\* (props, view mode, flags, clipboard, storage, host variables) is what it
\* was: a step of the sandboxed document changes none of it.
C3_HostStateUntouched ==
    [][(~loaded /\ loaded') => UNCHANGED hostVars]_vars

\* C4: the frame grants scripting and fetching of the runtime assets and no
\* other capability: no storage, no top-level navigation, no host variables.
C4_MinimalCapabilities ==
    iframeRef => Capabilities(SandboxFlags) = {"scripts", "fetch"}

\* the names declared (function or const) by the statements
DeclaredNames(stmts) ==
    NamesOf(stmts, "function") \cup NamesOf(stmts, "const") \cup NamesOf(stmts, "let")

\* C5: for a script-language source that is a default-exported function
\* declaration, whatever its name, the composed document contains a
\* declaration named exactly App and no export token.
C5_DefaultFunctionBecomesApp ==
    (iframeRef /\ language \in ScriptLanguages /\ DefaultFunctionName(code, 1) # 0)
        => /\ <<"App">> \in DeclaredNames(Parse(GuardedSource(doc.nodes)))
           /\ \A i \in 1..Len(doc.nodes) : doc.nodes[i] # "export"

\* C6: for language html the document composed and written to the iframe is
\* the source text itself, nothing added, removed or changed.
C6_HtmlVerbatim ==
    (iframeRef /\ language = "html") => (written = code /\ doc.nodes = code)

\* a settled html preview of a text that the clean-up of the script branch
\* would have changed
C6_Witness ==
    Settled /\ language = "html" /\ cleanedCode(code) # code /\ doc.nodes = code

C8_EntryPointPriority ==
    (Settled /\ language \in ScriptLanguages /\ Completes(code))
        => /\ HasApp(code) => result.acts = {"mount"}
           /\ (~HasApp(code) /\ HasMain(code)) => result.acts \in {{"main"}, {"main", "catch"}}
           /\ (~HasApp(code) /\ ~HasMain(code)) => result.acts = {"no_entry"}
           /\ Cardinality(result.acts \cap {"mount", "main", "no_entry"}) = 1

\* a source with both an App and a main has been mounted
C8_Witness ==
    /\ Settled
    /\ language \in ScriptLanguages
    /\ Completes(code)
    /\ HasApp(code)
    /\ HasMain(code)
    /\ result.acts = {"mount"}
    /\ result.shown = "ui"

\* C9 as amended: a script-language source that runs to the end and defines
\* neither App nor main yields the no-entry-point message, on the normal
\* path, not blank, and not the message of the catch block.
C9_NoEntryPoint ==
    (Settled /\ language \in ScriptLanguages /\ Completes(code)
        /\ ~HasApp(code) /\ ~HasMain(code))
        => /\ result.acts = {"no_entry"}
           /\ result.shown = "no_entry"
           /\ result.shown \notin {"blank", "runtime_error"}

C9_Witness ==
    /\ Settled
    /\ language \in ScriptLanguages
    /\ code = DefaultWidget
    /\ result.shown = "no_entry"

\* the statements assign or declare neither App nor main
DefinesNoEntry(src) ==
    {<<"App">>, <<"main">>} \cap
        (DeclaredNames(StatementsOf(src)) \cup NamesOf(StatementsOf(src), "assign")) = {}

\* C9 as claimed: every script-language source that defines neither App nor
\* main yields the no-entry-point message on the normal path.
C9_Original ==
    (Settled /\ language \in ScriptLanguages /\ DefinesNoEntry(code))
        => (result.acts = {"no_entry"} /\ result.shown = "no_entry")

C11_DocumentFollowsSource ==
    /\ []((mounted /\ activeTab = "preview")
            => (iframeRef /\ doc.nodes = content(code, language)))
    /\ [][(code' # code /\ activeTab = "preview")
            => /\ doc' = [nodes |-> content(code', language'), open |-> FALSE]
               /\ ~loaded']_vars

\* the source text changed under a loaded preview and the document composed
\* from the new text has run
C11_Witness ==
    /\ Settled
    /\ overwrote
    /\ language \in ScriptLanguages
    /\ doc.nodes = content(code, language)
    /\ result = Execute(content(code, language), SandboxFlags)

\* the document updateIframe leaves in the iframe for the current props,
\* before it has loaded
FreshDocument ==
    /\ doc = [nodes |-> content(code, language), open |-> FALSE]
    /\ written = content(code, language)
    /\ ~loaded
    /\ result = Pending

C13_ViewMode ==
    /\ activeTab \in {"preview", "code"}
    /\ ~mounted => activeTab = (IF language \in Languages THEN "preview" ELSE "code")

\* C14: for a script language the text placed in the document contains no
\* static import: every import declaration of the source (default, named,
\* namespace, over several lines, side effect only) has been removed.
C14_NoImportLeft ==
    (iframeRef /\ language \in ScriptLanguages)
        => \A i \in 1..Len(doc.nodes) : doc.nodes[i] # "import"

\* the source text has one default export and it is of an expression (not
\* of a named function declaration); when the expression is a name, the
\* text declares a function of that name
DefaultExpression(src) ==
    LET i == FirstExportDefault(src, 1) IN
    /\ i # 0
    /\ DefaultFunctionName(src, i) = 0
    /\ Cardinality({k \in 1..Len(src) : src[k] = "default"}) = 1
    /\ LET e == ParseExpr(src, ExportDefaultMatch(src, i)) IN
       /\ e.ok
       /\ e.val.kind = "ref" => e.val.ref \in NamesOf(StatementsOf(src), "function")

\* C15: for a script-language source with a default-exported expression
\* (an arrow function, a class, a name as in `export default Foo;`) the
\* expression is bound to App: once the document has run, App exists and
\* has been mounted.
C15_DefaultExpressionBecomesApp ==
    (Settled /\ language \in ScriptLanguages /\ DefaultExpression(code))
        => /\ Completes(code)
           /\ HasApp(code)
           /\ result.acts = {"mount"}

\* C16: for a script language no export keyword is left in the text placed
\* in the document, whatever form of export the source used (declarations,
\* lists with and without a space before the brace, export *, several
\* default exports).
C16_NoExportLeft ==
    (iframeRef /\ language \in ScriptLanguages)
        => \A i \in 1..Len(doc.nodes) : doc.nodes[i] # "export"

\* C17: whatever the script of the frame does (it does not compile, throws,
\* finds no entry point, never returns), the page that embeds the frame
\* keeps running and its state (the code blocks of the transcript, view
\* mode, copied flag, fullscreen flag) is what it was.
C17_HostUnaffected ==
    [][SandboxRun => /\ UNCHANGED <<code, language, activeTab, copied, isFullscreen>>
                     /\ ~hostBlocked']_vars

\* C18: a copy writes the text of the code block as it was given (not the
\* cleaned text, not the document) to the clipboard and turns copied on;
\* copied stays on for the 2 seconds after that copy, that is while the
\* timer of a copy is pending, and it is never on without a timer pending
\* that will turn it off.
C18_CopiedForTwoSeconds ==
    /\ [](timers > 0 => copied)
    /\ [](copied => timers > 0)
    /\ [][CopyToClipboard => (clipboard' = code /\ copied')]_vars

\* C19: switching between the code tab and the preview, in any order with
\* reload, copy and fullscreen, leaves the text of the code block as it
\* was given: no step of the component changes it, and the text a copy
\* puts on the clipboard is that text.
C19_SourceKept ==
    [][((\E t \in {"preview", "code"} : SetActiveTab(t)) \/ Reload \/ CopyToClipboard
           \/ CopiedTimeout \/ ToggleFullscreen \/ SandboxRun \/ Mount)
        => /\ code' = code
           /\ clipboard' # clipboard => clipboard' = code]_vars

\* a block that mounted in the code tab has been previewed, switched back
\* to the code tab and copied: the clipboard holds the text as given, which
\* is not the cleaned text the preview was made of
C19_Witness ==
    /\ mounted
    /\ InitialTab(language) = "code"
    /\ activeTab = "code"
    /\ written = content(code, language)
    /\ cleanedCode(code) # code
    /\ clipboard = code
    /\ isFullscreen

\* C20: a toggle of fullscreen changes the fullscreen flag and nothing
\* else: the document is not composed or written again, the frame keeps
\* its document and what it shows, and view mode, copied flag and the text
\* of the code block are what they were.
C20_FullscreenOnly ==
    [][(isFullscreen' # isFullscreen)
        => UNCHANGED <<code, language, mounted, activeTab, copied, timers, clipboard,
                       iframeRef, doc, loaded, result, written, lastKey, again, overwrote,
                       hostStorage, hostVar, hostBlocked>>]_vars

\* fullscreen is on over a preview that has loaded and shows its component;
\* its document was written once for these props
C20_Witness ==
    /\ Settled
    /\ isFullscreen
    /\ language \in ScriptLanguages
    /\ result.shown = "ui"
    /\ again = NoText
    /\ ~overwrote

\* C21: a code element is given to CodePreview exactly when it is a fenced
\* block whose tag is one of html, jsx, tsx, javascript, typescript;
\* CodePreview then receives the text of the block and its tag; any other
\* element is displayed without a preview.
C21_Routing ==
    rendered # NotRendered
        => /\ rendered.as = "CodePreview"
                <=> (element.fenced /\ element.tag \in PreviewableTags)
           /\ rendered.as = "CodePreview"
                => (rendered.code = element.text /\ rendered.language = element.tag)
           /\ rendered.as \in {"CodePreview", "SyntaxHighlighter", "code"}

\* C22: for language jsx and the source
\* `export default function App(){ return <div>hi</div> }` the document
\* holds the declaration `function App(){ return <div>hi</div> }`, the
\* source with its export keywords removed and nothing else changed, in the
\* guarded block of the template before the final render logic with its
\* mount of App; once it has run, App has been mounted and is shown.
C22_ScenarioApp ==
    (iframeRef /\ language = "jsx" /\ code = ScenarioApp)
        => /\ doc.nodes = TemplateHead \o <<"function", " ", "App", BodyJsx>> \o TemplateTail
           /\ GuardedSource(doc.nodes) = <<"function", " ", "App", BodyJsx>>
           /\ \E i \in 1..Len(doc.nodes) : doc.nodes[i] = FinalRender
           /\ loaded => (result.acts = {"mount"} /\ result.shown = "ui")

C22_Witness ==
    /\ Settled
    /\ language = "jsx"
    /\ code = ScenarioApp
    /\ result.acts = {"mount"}
    /\ result.shown = "ui"

\* C23: for language javascript and the source
\* `let x = 1/0; App = () => x;` the document ends on a diagnostic (the
\* error text or the no-entry-point message) and App is not mounted.
C23_ScenarioDivision ==
    (Settled /\ language = "javascript" /\ code = ScenarioDivision)
        => /\ "mount" \notin result.acts
           /\ result.shown \in {"runtime_error", "no_entry"}

\* C24: for a script language the whole cleaned source is the content of
\* the guarded block of the template's script: the script element of the
\* document is globals, try, the cleaned source, final render logic and
\* catch, and nothing of the source lies after its end tag.
C24_SourceInGuardedBlock ==
    (iframeRef /\ language \in ScriptLanguages)
        => /\ ScriptText(doc.nodes)
                = <<Globals, TryOpen>> \o cleanedCode(code)
                    \o <<FinalRender, LucideInit, CatchBlock>>
           /\ AfterScript(doc.nodes) = <<DocTail>>

\* the number of default exports of the source text
DefaultCount(src) == Cardinality({k \in 1..Len(src) : src[k] = "default"})

\* the value the first default export of the source text exports: of a
\* function or class that very function, of a name the function the text
\* declares under that name
FirstDefaultValue(src) ==
    LET i == FirstExportDefault(src, 1)
        e == ParseExpr(src, ExportDefaultMatch(src, i))
    IN  IF ~e.ok THEN NoVal
        ELSE IF e.val.kind # "ref" THEN e.val
        ELSE IF e.val.ref \in NamesOf(StatementsOf(src), "function")
             THEN Hoisted(StatementsOf(src))[e.val.ref]
        ELSE NoVal

\* C25: for a script-language source with more than one default export,
\* whatever mix of function declarations and expressions, the component
\* mounted as App is the one of the first default export of the text.
C25_FirstDefaultWins ==
    (Settled /\ language \in ScriptLanguages /\ DefaultCount(code) >= 2)
        => /\ Completes(code)
           /\ HasApp(code)
           /\ result.acts = {"mount"}
           /\ RunOf(code).env[<<"App">>] = FirstDefaultValue(code)

\* index after the import declaration that starts at i: after its semicolon
RECURSIVE ImportEnd(_, _)
ImportEnd(s, i) ==
    IF i > Len(s) THEN i
    ELSE IF s[i] = ";" THEN i + 1
    ELSE ImportEnd(s, i + 1)

\* the pieces of the source text that are neither an import declaration nor
\* an export or default keyword (with the white space after it), from token
\* i on: string literals and identifiers are taken whole, white space between
\* the pieces is left out
RECURSIVE Kept(_, _)
Kept(s, i) ==
    IF i > Len(s) THEN <<>>
    ELSE IF s[i] \in Quote
         THEN LET r == StringEnd(s, i + 1, s[i]) IN
              IF r = 0 THEN SubSeq(s, i, Len(s))
              ELSE SubSeq(s, i, r) \o Kept(s, r + 1)
    ELSE IF IsKeyword(s, i, "import") THEN Kept(s, ImportEnd(s, i))
    ELSE IF IsKeyword(s, i, "export") \/ IsKeyword(s, i, "default")
         THEN Kept(s, SpacesEnd(s, i + 1))
    ELSE IF s[i] \in Word THEN SubSeq(s, i, WordEnd(s, i) - 1) \o Kept(s, WordEnd(s, i))
    ELSE IF s[i] \in Space THEN Kept(s, i + 1)
    ELSE <<s[i]>> \o Kept(s, i + 1)

\* the atoms of a appear in b, in the same order
RECURSIVE IsSubsequence(_, _)
IsSubsequence(a, b) ==
    IF a = <<>> THEN TRUE
    ELSE IF b = <<>> THEN FALSE
    ELSE IF Head(a) = Head(b) THEN IsSubsequence(Tail(a), Tail(b))
    ELSE IsSubsequence(a, Tail(b))

\* C26: the clean-up of a script-language source takes away import
\* declarations and export keywords only: every other piece of the source
\* (statements between imports, string literals with the words import,
\* from or export in them, identifiers that end in export) is in the text
\* placed in the document, unchanged and in the same order.
C26_OnlyImportsAndExportsRemoved ==
    (iframeRef /\ language \in ScriptLanguages)
        => IsSubsequence(Kept(code, 1), GuardedSource(doc.nodes))

\* the playbacks that can be heard: the Audio elements that play and the
\* utterance at the head of the queue of the speech synthesis
ActivePlaybacks ==
    {a.messageId : a \in playing} \cup (IF utterances = <<>> THEN {} ELSE {Head(utterances)})

PlaybackCount == Cardinality(playing) + (IF utterances = <<>> THEN 0 ELSE 1)

\* C27: at most one playback is active at any time, and speakingMessageId
\* is the id of the message being played (null when none is), however the
\* speak requests and the answers of the speech route interleave.
C27_OnePlayback ==
    /\ PlaybackCount <= 1
    /\ ActivePlaybacks = (IF speakingMessageId = "null" THEN {} ELSE {speakingMessageId})

\* the call of speak() that has just ended got an answer of the route
Answered == lastSpeak # NoSpeak /\ lastSpeak.response.status # 0

\* the request of that call failed with a message that has `modality` or `400` in it
UnsupportedFailure ==
    /\ lastSpeak.gemini.kind = "error"
    /\ \E i \in 1..Len(lastSpeak.gemini.message) :
            lastSpeak.gemini.message[i] \in {"modality", "400"}

\* the answer of the model had an audio part
AudioGenerated ==
    /\ lastSpeak.gemini.kind = "response"
    /\ lastSpeak.gemini.audioPart
    /\ lastSpeak.gemini.blockReason = "none"

SuccessBody ==
    /\ lastSpeak.response.body.error = "none"
    /\ lastSpeak.response.body.audioContent # "none" \/ lastSpeak.response.body.audio # "none"

\* the answer of the route is the one the fixed mapping gives
FixedMapping ==
    Answered =>
        /\ SuccessBody => AudioGenerated
        /\ IF ~platform.apiKey
           THEN /\ lastSpeak.response.status = 500
                /\ lastSpeak.response.body.error = "Configuration Error"
           ELSE IF cleanText(MessageText[lastSpeak.messageId]) = <<>>
           THEN /\ lastSpeak.response.status = 400
                /\ ~SuccessBody
           ELSE IF UnsupportedFailure
           THEN /\ lastSpeak.response.status = 200
                /\ lastSpeak.response.body.error = "GEMINI_MODALITY_UNSUPPORTED"
           ELSE IF AudioGenerated
           THEN /\ lastSpeak.response.status = 200
                /\ SuccessBody
           ELSE /\ lastSpeak.response.status = 500
                /\ lastSpeak.response.body.error = "Speech Generation Error"

\* C30: the generate-speech route answers by the fixed mapping (no API key:
\* 500 Configuration Error; no text: 400; a failure with `modality` or
\* `400` in its message: 200 GEMINI_MODALITY_UNSUPPORTED; any other
\* failure: 500 Speech Generation Error; a success body only for an audio
\* part), and when the call of speak() ends isGeneratingSpeech is null and,
\* in a browser that has speech synthesis, the audio of Gemini or the
\* utterance of the browser has been started.
C30_RouteMappingAndFallback ==
    /\ FixedMapping
    /\ lastSpeak # NoSpeak
           => /\ isGeneratingSpeech = "null"
              /\ platform.speechSynthesis => lastSpeak.started \in {"audio", "utterance"}

\* a call of speak() ended with the fallback after the route answered
\* GEMINI_MODALITY_UNSUPPORTED
C30_Witness ==
    /\ Answered
    /\ lastSpeak.response.body.error = "GEMINI_MODALITY_UNSUPPORTED"
    /\ lastSpeak.started = "utterance"
    /\ isGeneratingSpeech = "null"

\* C30 as first stated: a playback has been started whatever the browser
C30_Original ==
    lastSpeak # NoSpeak
        => /\ isGeneratingSpeech = "null"
           /\ lastSpeak.started \in {"audio", "utterance"}

\* a is the beginning of b
IsPrefix(a, b) == Len(a) <= Len(b) /\ SubSeq(b, 1, Len(a)) = a

\* the transcript is made of pairs: the user message of a submission, then
\* the one assistant message for it; the last pair lacks the second while
\* its request is pending
PairedTranscript ==
    /\ \A i \in 1..Len(messages) :
           IF i % 2 = 1
           THEN messages[i].role = "user"
           ELSE /\ messages[i].role = "assistant"
                /\ messages[i].of = messages[i - 1].of
    /\ Cardinality(pending) <= 1
    /\ isLoading <=> pending # {}
    /\ \A p \in pending :
           /\ Len(messages) % 2 = 1
           /\ messages[Len(messages)].of = p.of
    /\ pending = {} => Len(messages) % 2 = 0

\* a call of handleSubmit while loading, or with nothing to send, changes
\* nothing; a call that is accepted appends the user message, takes the
\* input and the attachment, and starts loading
SubmitStep ==
    submits' # submits
        => /\ (isLoading \/ (trim(input) = <<>> /\ ~selectedImage))
                => UNCHANGED <<messages, input, selectedImage, isLoading, pending>>
           /\ messages' # messages
                => /\ messages' = Append(messages, userMessage(submits', input, selectedImage))
                   /\ input' = <<>>
                   /\ ~selectedImage'
                   /\ isLoading'

\* C28: submission is single-flight and always completes. A submit while
\* isLoading, or with a blank input and no attachment, changes nothing; an
\* accepted submit appends one user message and then one assistant message
\* (the reply or `Error: ...`) and isLoading becomes false again; the
\* messages of the transcript are never changed, removed or reordered.
C28_SingleFlight ==
    /\ []PairedTranscript
    /\ [][SubmitStep]_vars
    /\ [][IsPrefix(messages, messages') /\ Len(messages') <= Len(messages) + 1]_vars
    /\ (isLoading ~> ~isLoading)

\* two submissions have been accepted and have completed, one with an
\* image and one with an error
C28_Witness ==
    /\ Len(messages) = 4
    /\ \E i \in 1..4 : messages[i].content = <<"Error: ", "rejected">>
    /\ \E i \in 1..4 : messages[i].type = "image"
    /\ ~isLoading

\* isMicInitializing is true only while the 3 second timeout of the start
\* attempt that set it is pending
InitializingBounded == isMicInitializing => initTimers > 0

\* C29: isListening is true only while recognition runs: once it has ended
\* or failed, isListening is false until the next start event, in whatever
\* order onstart (with its delayed state update), onend and onerror come;
\* and isMicInitializing is cleared 3 seconds after a start attempt at the
\* latest.
C29_ListeningWhileRunning ==
    /\ isListening => recognition \in {"active", "stopping"}
    /\ InitializingBounded
====
